---- MODULE Spec2Model ----
(***************************************************************************)
(* A model of the webpack-bundling-demo bundler.                           *)
(*                                                                         *)
(* Build side (specification Spec): bundler.js runs buildDependencyGraph,  *)
(* identifyChunks and generateBundles over a source tree.                  *)
(* Run side (specification SpecRun): the runtime that generateMainBundle   *)
(* emits (loadModule, loadChunk, loadScript, installChunk, the JSONP       *)
(* callback array) executing the emitted files in a page.                  *)
(* Single calls (specifications SpecResolve and SpecTransform): one call   *)
(* of resolveModule on a filesystem snapshot, one call of transformModule  *)
(* on the text of a module.                                                *)
(*                                                                         *)
(* Paths, module ids and chunk ids are sequences of one-character strings, *)
(* so that toModuleId and toChunkId are computed character by character.   *)
(***************************************************************************)
EXTENDS Integers, Sequences, FiniteSets, TLC

VARIABLES
    project,        \* the source tree: absolute path -> parsed module (parseModule's result)
    pc,             \* position of bundler.js: "start", "graph", "chunks", "bundles"
    graph,          \* buildDependencyGraph's Map, as the sequence of its keys in insertion order
    chunkInfo,      \* identifyChunks' result
    output,         \* generateBundles' result: the sequence of emitted files
    runs,           \* how many times the planner and the generator have run on the graph
    \* the page that loads the emitted files
    kickoff,        \* main.js: "none" (not run), "running", "returned", "threw"
    bundlerChunkCallbacks,  \* self["bundlerChunkCallbacks"]: the envelopes pushed onto the
                    \* plain array
    envelopes,      \* every envelope a chunk file has pushed, in order: [id |-> its
                    \* number, file |-> the index in output of the file that built it]
    installCalls,   \* the arguments of the calls of installChunk, in order
    pushReplaced,   \* how many times callbacks.push has been replaced
    moduleRegistry, \* module id -> its factory, a function object named by the envelope
                    \* that carried it (id 0: main.js's own registry literal)
    moduleCache,    \* module id -> [exports |-> the exports object]
    heap,           \* number of module objects created so far (the next one is heap + 1)
    stack,          \* the running factories, innermost last:
                    \* [mod, file, next (the next hoisted loadModule call), exports]
    root,           \* what started the running call chain: the entry kick-off or a
                    \* dynamic-import continuation
    factoryRuns,    \* module id -> the factories invoked for it, in order
    returned,       \* the last value a loadModule call returned: [id, exports]
    chunkStatus,    \* chunk id -> 0 or the promise of its in-flight tuple; absent = undefined
    promises,       \* promise number -> "pending" or "fulfilled"
    scripts,        \* the loadScript calls: [url, state]
    imports,        \* the executed dynamic imports: loadChunk(chunkId).then(...)
    thrown,         \* the errors thrown so far
    bindings,       \* module id -> the value of its exported local binding `count`
                    \* (-1: the declaration has not been evaluated yet)
    reads,          \* the reads of an export made through an exports object, in order
    \* one call of resolveModule
    disk,           \* the filesystem snapshot: path -> "file" or "dir"; absent = no entry
    request,        \* the arguments of the call: [specifier, fromDir]
    resolution,     \* its outcome: [kind, path, tried, probes], probes being the
                    \* candidates handed to fs.existsSync, in order
    \* one call of transformModule
    parsedModule,   \* the parsed module handed to it
    transformed     \* the factory body it returns

buildVars == <<project, pc, graph, chunkInfo, output, runs>>

pageVars == <<envelopes, installCalls, kickoff, bundlerChunkCallbacks, pushReplaced, moduleRegistry, moduleCache, heap,
              stack, root, factoryRuns, returned, chunkStatus, promises, scripts, imports,
              thrown, bindings, reads>>

unitVars == <<disk, request, resolution, parsedModule, transformed>>

----------------------------------------------------------------------------
(* Ordered collections: a JavaScript Set is a duplicate-free sequence in   *)
(* insertion order, a Map a sequence of [key, value] entries.              *)

Null == <<>>

Range(s) == {s[i] : i \in 1..Len(s)}

SetHas(s, x) == \E i \in 1..Len(s) : s[i] = x

SetAdd(s, x) == IF SetHas(s, x) THEN s ELSE Append(s, x)

MapHas(m, k) == \E i \in 1..Len(m) : m[i].key = k

MapGet(m, k) == m[CHOOSE i \in 1..Len(m) : m[i].key = k].value

\* Map.prototype.set: a new key is appended, an existing key keeps its
\* position and has its value replaced.
MapSet(m, k, v) ==
    IF MapHas(m, k)
    THEN [i \in 1..Len(m) |-> IF m[i].key = k THEN [key |-> k, value |-> v] ELSE m[i]]
    ELSE Append(m, [key |-> k, value |-> v])

MapKeys(m) == [i \in 1..Len(m) |-> m[i].key]

MapValues(m) == [i \in 1..Len(m) |-> m[i].value]

RECURSIVE SelectSeqBy(_, _)
\* the elements of s whose index is in keep, in order
SelectSeqBy(s, keep) ==
    IF s = <<>> THEN <<>>
    ELSE LET n == Len(s)
             front == SelectSeqBy(SubSeq(s, 1, n - 1), keep)
         IN  IF n \in keep THEN Append(front, s[n]) ELSE front

----------------------------------------------------------------------------
(* The source tree.                                                        *)

ProjectRoot == <<"/", "p">>

Abs(rel) == ProjectRoot \o <<"/">> \o rel

FileIndex   == Abs(<<"i", ".", "j", "s">>)
FileA       == Abs(<<"a", ".", "j", "s">>)
FileB       == Abs(<<"b", ".", "j", "s">>)
FileSharedS == Abs(<<"s", "h", "a", "r", "e", "d", "/", "s", ".", "j", "s">>)
FileShared_S == Abs(<<"s", "h", "a", "r", "e", "d", "_", "s", ".", "j", "s">>)
FileS       == Abs(<<"s", ".", "j", "s">>)
FileT       == Abs(<<"t", ".", "j", "s">>)

Files == {FileIndex, FileA, FileB, FileSharedS, FileShared_S, FileS, FileT}

EntryPath == FileIndex

\* The import statements a file of the tree may contain, in source order:
\* imports are the resolved targets of its ImportDeclarations,
\* dynamicImports those of its literal import() expressions, reexports the
\* files that the sources of its `export { x } from '...'` declarations name.
Template ==
    [f \in Files |->
        CASE f = FileIndex    -> [imports |-> <<FileS>>,
                                  dynamicImports |->
                                      <<FileA, FileB, FileSharedS, FileShared_S, FileS>>,
                                  reexports |-> <<FileT>>]
          [] f = FileA        -> [imports |-> <<FileT, FileS, FileT, FileSharedS>>,
                                  dynamicImports |-> <<FileB>>,
                                  reexports |-> <<FileT, FileS>>]
          [] f = FileB        -> [imports |-> <<FileS, FileT, FileSharedS, FileShared_S>>,
                                  dynamicImports |-> <<>>, reexports |-> <<>>]
          [] f = FileSharedS  -> [imports |-> <<FileT>>, dynamicImports |-> <<>>,
                                  reexports |-> <<>>]
          [] f = FileShared_S -> [imports |-> <<FileS>>, dynamicImports |-> <<>>,
                                  reexports |-> <<>>]
          [] f = FileS        -> [imports |-> <<FileIndex, FileT>>, dynamicImports |-> <<>>,
                                  reexports |-> <<>>]
          [] f = FileT        -> [imports |-> <<FileS>>, dynamicImports |-> <<>>,
                                  reexports |-> <<>>]]

StaticStatements ==
    UNION {{<<f, i>> : i \in 1..Len(Template[f].imports)} : f \in Files}

DynamicStatements ==
    UNION {{<<f, i>> : i \in 1..Len(Template[f].dynamicImports)} : f \in Files}

ReexportStatements ==
    UNION {{<<f, i>> : i \in 1..Len(Template[f].reexports)} : f \in Files}

\* The tree that keeps the statements sm (static), dm (dynamic) and rm
\* (re-export) of the template.
MakeProject(sm, dm, rm) ==
    [f \in Files |->
        [imports |-> SelectSeqBy(Template[f].imports, {st[2] : st \in {x \in sm : x[1] = f}}),
         dynamicImports |->
            SelectSeqBy(Template[f].dynamicImports, {st[2] : st \in {x \in dm : x[1] = f}}),
         reexports |->
            SelectSeqBy(Template[f].reexports, {st[2] : st \in {x \in rm : x[1] = f}})]]

MaxImportStatements == 6

----------------------------------------------------------------------------
(* dependency-graph.js                                                     *)

\* parseModule: the imports and dynamicImports of a file; buildDependencyGraph
\* attaches the resolved path to each of them.
parseModule(fs, filePath) == fs[filePath]

RECURSIVE GraphLoop(_, _, _)
GraphLoop(fs, queue, g) ==
    IF queue = <<>> THEN g
    ELSE LET filePath == Head(queue)
             rest == Tail(queue)
         IN  IF SetHas(g, filePath) THEN GraphLoop(fs, rest, g)
             ELSE LET moduleInfo == parseModule(fs, filePath)
                      g2 == Append(g, filePath)
                      q1 == rest \o SelectSeq(moduleInfo.imports,
                                              LAMBDA r : ~SetHas(g2, r))
                      q2 == q1 \o SelectSeq(moduleInfo.dynamicImports,
                                            LAMBDA r : ~SetHas(g2, r))
                  IN  GraphLoop(fs, q2, g2)

buildDependencyGraph(fs, entryPath) == GraphLoop(fs, <<entryPath>>, <<>>)

\* './' + path.relative(projectRoot, absolutePath), for a path under the root
toModuleId(absolutePath, projectRoot) ==
    <<".", "/">> \o SubSeq(absolutePath, Len(projectRoot) + 2, Len(absolutePath))

ReplaceAll(s, from, to) == [i \in 1..Len(s) |-> IF s[i] \in from THEN to ELSE s[i]]

StripDotSlash(s) ==
    IF Len(s) >= 2 /\ s[1] = "." /\ s[2] = "/" THEN SubSeq(s, 3, Len(s)) ELSE s

\* .replace(/^\.\//, '').replace(/[/\\]/g, '_').replace(/\./g, '_').replace(/_js$/, '_js')
toChunkId(moduleId) ==
    ReplaceAll(ReplaceAll(StripDotSlash(moduleId), {"/", "\\"}, "_"), {"."}, "_")

\* The characters of the model in UTF-16 code unit order (Array.prototype.sort's
\* default comparison), and a string's rank in that order.
Alphabet == <<"-", ".", "/", "\\", "_", "a", "b", "d", "e", "h", "i", "j", "m", "n",
              "r", "s", "t", "|">>

CharCode(c) == CHOOSE i \in 1..Len(Alphabet) : Alphabet[i] = c

RECURSIVE StrLess(_, _)
StrLess(a, b) ==
    IF a = <<>> THEN b # <<>>
    ELSE IF b = <<>> THEN FALSE
    ELSE IF a[1] = b[1] THEN StrLess(Tail(a), Tail(b))
    ELSE CharCode(a[1]) < CharCode(b[1])

RECURSIVE SortStrings(_)
\* [...x].sort(): insertion into the sorted prefix
SortStrings(s) ==
    IF s = <<>> THEN <<>>
    ELSE LET n == Len(s)
             front == SortStrings(SubSeq(s, 1, n - 1))
             k == Cardinality({i \in 1..Len(front) : ~StrLess(s[n], front[i])})
         IN  SubSeq(front, 1, k) \o <<s[n]>> \o SubSeq(front, k + 1, Len(front))

RECURSIVE Join(_, _)
Join(s, sep) ==
    IF s = <<>> THEN <<>>
    ELSE IF Len(s) = 1 THEN s[1]
    ELSE s[1] \o sep \o Join(Tail(s), sep)

\* identifyChunks, lines 80-86: the moduleId-keyed info map, in graph order
RECURSIVE ModulesLoop(_, _, _, _)
ModulesLoop(fs, g, projectRoot, modules) ==
    IF g = <<>> THEN modules
    ELSE ModulesLoop(fs, Tail(g), projectRoot,
                     MapSet(modules, toModuleId(Head(g), projectRoot),
                            parseModule(fs, Head(g))))

UnseenImportsAndDynamic(info, projectRoot, seen) ==
    LET deps == info.imports \o info.dynamicImports
        depIds == [i \in 1..Len(deps) |-> toModuleId(deps[i], projectRoot)]
    IN  SelectSeq(depIds, LAMBDA depId : \A v \in seen : ~SetHas(v, depId))

\* the module ids of info's static imports that are not yet in any of the sets
\* seen (the test before queue.push)
UnseenImports(info, projectRoot, seen) ==
    LET depIds == [i \in 1..Len(info.imports) |-> toModuleId(info.imports[i], projectRoot)]
    IN  SelectSeq(depIds, LAMBDA depId : \A v \in seen : ~SetHas(v, depId))

\* Step 1: BFS over static imports from the entry
RECURSIVE MainLoop(_, _, _, _)
MainLoop(modules, projectRoot, mainQueue, mainModuleIds) ==
    IF mainQueue = <<>> THEN mainModuleIds
    ELSE LET modId == Head(mainQueue)
             rest == Tail(mainQueue)
         IN  IF SetHas(mainModuleIds, modId)
             THEN MainLoop(modules, projectRoot, rest, mainModuleIds)
             ELSE LET visited == Append(mainModuleIds, modId)
                  IN  IF ~MapHas(modules, modId)
                      THEN MainLoop(modules, projectRoot, rest, visited)
                      ELSE MainLoop(modules, projectRoot,
                                    rest \o UnseenImports(MapGet(modules, modId),
                                                          projectRoot, {visited}),
                                    visited)

\* Step 2, lines 112-121: every dynamic import target and its chunk id
RECURSIVE DynamicTargets(_, _)
DynamicTargets(modules, projectRoot) ==
    IF modules = <<>> THEN <<>>
    ELSE LET dyn == Head(modules).value.dynamicImports
         IN  [i \in 1..Len(dyn) |-> toModuleId(dyn[i], projectRoot)]
             \o DynamicTargets(Tail(modules), projectRoot)

RECURSIVE EntryPointsLoop(_, _)
EntryPointsLoop(targets, dynamicEntryPoints) ==
    IF targets = <<>> THEN dynamicEntryPoints
    ELSE EntryPointsLoop(Tail(targets),
                         MapSet(dynamicEntryPoints, Head(targets), toChunkId(Head(targets))))

\* lines 125-142: BFS over static imports from one dynamic entry, excluding
\* the main chunk's modules
RECURSIVE LazyBFS(_, _, _, _, _)
LazyBFS(modules, projectRoot, mainModuleIds, queue, chunkModuleIds) ==
    IF queue = <<>> THEN chunkModuleIds
    ELSE LET modId == Head(queue)
             rest == Tail(queue)
         IN  IF SetHas(chunkModuleIds, modId) \/ SetHas(mainModuleIds, modId)
             THEN LazyBFS(modules, projectRoot, mainModuleIds, rest, chunkModuleIds)
             ELSE LET visited == Append(chunkModuleIds, modId)
                  IN  IF ~MapHas(modules, modId)
                      THEN LazyBFS(modules, projectRoot, mainModuleIds, rest, visited)
                      ELSE LazyBFS(modules, projectRoot, mainModuleIds,
                                   rest \o UnseenImports(MapGet(modules, modId), projectRoot,
                                                         {visited, mainModuleIds}),
                                   visited)

\* lines 124-149
RECURSIVE LazyLoop(_, _, _, _, _)
LazyLoop(modules, projectRoot, mainModuleIds, entryPoints, lazyChunks) ==
    IF entryPoints = <<>> THEN lazyChunks
    ELSE LET targetModuleId == Head(entryPoints).key
             chunkId == Head(entryPoints).value
             chunkModuleIds ==
                 LazyBFS(modules, projectRoot, mainModuleIds, <<targetModuleId>>, <<>>)
         IN  LazyLoop(modules, projectRoot, mainModuleIds, Tail(entryPoints),
                      MapSet(lazyChunks, chunkId,
                             [id |-> chunkId, moduleIds |-> chunkModuleIds,
                              entryModuleId |-> targetModuleId, originalChunks |-> Null]))

\* splitSharedModules, lines 201-209: module id -> the Set of lazy chunk ids
\* whose member set holds it
RECURSIVE CountModules(_, _, _)
CountModules(chunkId, moduleIds, moduleCounts) ==
    IF moduleIds = <<>> THEN moduleCounts
    ELSE LET modId == Head(moduleIds)
             old == IF MapHas(moduleCounts, modId) THEN MapGet(moduleCounts, modId) ELSE <<>>
         IN  CountModules(chunkId, Tail(moduleIds),
                          MapSet(moduleCounts, modId, SetAdd(old, chunkId)))

RECURSIVE CountLoop(_, _)
CountLoop(lazyChunks, moduleCounts) ==
    IF lazyChunks = <<>> THEN moduleCounts
    ELSE CountLoop(Tail(lazyChunks),
                   CountModules(Head(lazyChunks).key, Head(lazyChunks).value.moduleIds,
                                moduleCounts))

\* line 225: [...chunkSet].sort().join('|')
groupKey(chunkSet) == Join(SortStrings(chunkSet), <<"|">>)

\* lines 226-233
RECURSIVE GroupLoop(_, _)
GroupLoop(sharedModules, groups) ==
    IF sharedModules = <<>> THEN groups
    ELSE LET modId == Head(sharedModules).key
             chunkIds == Head(sharedModules).value
             key == groupKey(chunkIds)
             group == IF MapHas(groups, key) THEN MapGet(groups, key)
                      ELSE [moduleIds |-> <<>>, chunkIds |-> chunkIds]
         IN  GroupLoop(Tail(sharedModules),
                       MapSet(groups, key,
                              [group EXCEPT !.moduleIds = SetAdd(group.moduleIds, modId)]))

SharedPrefix == <<"s", "h", "a", "r", "e", "d", "_">>

FirstModuleOfVaryingOrder(group) == group.moduleIds[1 + (runs % Len(group.moduleIds))]

\* line 239: the module a shared chunk is named after
FirstModuleOf(group) == group.moduleIds[1]

\* lines 236-248
RECURSIVE SharedLoop(_, _)
SharedLoop(groups, sharedChunks) ==
    IF groups = <<>> THEN sharedChunks
    ELSE LET group == Head(groups).value
             firstModId == FirstModuleOf(group)
             sharedChunkId == SharedPrefix \o toChunkId(firstModId)
         IN  SharedLoop(Tail(groups),
                        MapSet(sharedChunks, sharedChunkId,
                               [id |-> sharedChunkId, moduleIds |-> group.moduleIds,
                                entryModuleId |-> Null,
                                originalChunks |-> group.chunkIds]))

FilterChunkKeepsShared(chunk, sharedModules) == chunk

\* lines 251-263: the lazy chunk without the shared modules
FilterChunk(chunk, sharedModules) ==
    [chunk EXCEPT !.moduleIds =
        SelectSeq(chunk.moduleIds, LAMBDA modId : ~MapHas(sharedModules, modId))]

IsSharedByOne(chunks) == Len(chunks) >= 1

\* line 214: chunks.size >= 2
IsShared(chunks) == Len(chunks) >= 2

splitSharedModules(lazyChunks) ==
    LET moduleCounts == CountLoop(lazyChunks, <<>>)
        sharedModules == SelectSeq(moduleCounts, LAMBDA e : IsShared(e.value))
    IN  IF Len(sharedModules) = 0
        THEN [updatedLazyChunks |-> lazyChunks, sharedChunks |-> <<>>]
        ELSE [updatedLazyChunks |->
                  [i \in 1..Len(lazyChunks) |->
                      [key |-> lazyChunks[i].key,
                       value |-> FilterChunk(lazyChunks[i].value, sharedModules)]],
              sharedChunks |-> SharedLoop(GroupLoop(sharedModules, <<>>), <<>>)]

NeededChunksOwnOnly(chunkId, sharedChunks) == <<chunkId>>

\* identifyChunks, lines 158-171: the chunk ids a lazy chunk needs
NeededChunks(chunkId, sharedChunks) ==
    MapKeys(SelectSeq(sharedChunks, LAMBDA e : SetHas(e.value.originalChunks, chunkId)))
    \o <<chunkId>>

RECURSIVE GroupMapLoop(_, _, _)
GroupMapLoop(updatedLazyChunks, sharedChunks, chunkGroupMap) ==
    IF updatedLazyChunks = <<>> THEN chunkGroupMap
    ELSE LET chunkId == Head(updatedLazyChunks).key
         IN  GroupMapLoop(Tail(updatedLazyChunks), sharedChunks,
                          MapSet(chunkGroupMap, chunkId, NeededChunks(chunkId, sharedChunks)))

RECURSIVE MapFromEntries(_, _)
\* new Map([...entries])
MapFromEntries(entries, m) ==
    IF entries = <<>> THEN m
    ELSE MapFromEntries(Tail(entries), MapSet(m, Head(entries).key, Head(entries).value))

MainId == <<"m", "a", "i", "n">>

identifyChunks(fs, g, entryPath, projectRoot) ==
    LET entryModuleId == toModuleId(entryPath, projectRoot)
        modules == ModulesLoop(fs, g, projectRoot, <<>>)
        mainModuleIds == MainLoop(modules, projectRoot, <<entryModuleId>>, <<>>)
        dynamicEntryPoints == EntryPointsLoop(DynamicTargets(modules, projectRoot), <<>>)
        lazyChunks == LazyLoop(modules, projectRoot, mainModuleIds, dynamicEntryPoints, <<>>)
        split == splitSharedModules(lazyChunks)
        chunkGroupMap == GroupMapLoop(split.updatedLazyChunks, split.sharedChunks, <<>>)
        allLazyChunks == MapFromEntries(split.updatedLazyChunks \o split.sharedChunks, <<>>)
    IN  [mainChunk |-> [id |-> MainId, moduleIds |-> mainModuleIds],
         lazyChunks |-> allLazyChunks,
         chunkGroupMap |-> chunkGroupMap,
         modules |-> modules,
         dynamicEntryPoints |-> dynamicEntryPoints]

----------------------------------------------------------------------------
(* transformer.js and code-generator.js                                    *)

\* transformModule, lines 66-79: a re-export whose source has no module
\* variable yet gets one, and a loadModule call for it is pushed
RECURSIVE ReexportCalls(_, _, _)
ReexportCalls(reexports, named, projectRoot) ==
    IF reexports = <<>> THEN <<>>
    ELSE IF SetHas(named, Head(reexports))
    THEN ReexportCalls(Tail(reexports), named, projectRoot)
    ELSE <<toModuleId(Head(reexports), projectRoot)>>
         \o ReexportCalls(Tail(reexports), Append(named, Head(reexports)), projectRoot)

\* transformModule, as far as the loader sees the factory body: one
\* loadModule(moduleId) call per import declaration and one per re-export
\* source without an import declaration, hoisted to the top of the body,
\* and loadChunk(chunkId).then(loadModule.bind(loadModule, target)) in
\* place of each literal import().
transformModule(moduleInfo, projectRoot) ==
    [loadModuleCalls |->
        [i \in 1..Len(moduleInfo.imports) |-> toModuleId(moduleInfo.imports[i], projectRoot)]
        \o ReexportCalls(moduleInfo.reexports, moduleInfo.imports, projectRoot),
     dynamicImports |->
        [i \in 1..Len(moduleInfo.dynamicImports) |->
            [chunkId |-> toChunkId(toModuleId(moduleInfo.dynamicImports[i], projectRoot)),
             targetModuleId |-> toModuleId(moduleInfo.dynamicImports[i], projectRoot)]]]

\* the "<moduleId>": (module, exports, loadModule) => {...} entries of a chunk
Factories(moduleIds, modules, projectRoot) ==
    [i \in 1..Len(moduleIds) |->
        [key |-> moduleIds[i],
         value |-> transformModule(MapGet(modules, moduleIds[i]), projectRoot)]]

DotJs == <<".", "j", "s">>

generateMainBundle(mainChunk, lazyChunks, chunkGroupMap, modules, projectRoot, hasLazyChunks) ==
    [kind |-> "main",
     moduleRegistry |-> Factories(mainChunk.moduleIds, modules, projectRoot),
     hasLazyChunks |-> hasLazyChunks,
     chunkGroupMap |-> IF hasLazyChunks THEN chunkGroupMap ELSE <<>>,
     entryModuleId |-> mainChunk.moduleIds[1]]

generateLazyChunk(chunkId, chunk, modules, projectRoot) ==
    [kind |-> "chunk",
     chunkIds |-> <<chunkId>>,
     moreModules |-> Factories(chunk.moduleIds, modules, projectRoot)]

generateBundles(info, projectRoot) ==
    LET hasLazyChunks == Len(info.lazyChunks) > 0
    IN  <<[filename |-> MainId \o DotJs,
           content |-> generateMainBundle(info.mainChunk, info.lazyChunks, info.chunkGroupMap,
                                          info.modules, projectRoot, hasLazyChunks)]>>
        \o [i \in 1..Len(info.lazyChunks) |->
               [filename |-> info.lazyChunks[i].key \o DotJs,
                content |-> generateLazyChunk(info.lazyChunks[i].key, info.lazyChunks[i].value,
                                              info.modules, projectRoot)]]

----------------------------------------------------------------------------
(* bundler.js: the pipeline                                                *)

ModuleIds == {toModuleId(f, ProjectRoot) : f \in Files}

NoRoot == [kind |-> "none", idx |-> 0]

InitPage ==
    /\ kickoff = "none"
    /\ bundlerChunkCallbacks = <<>>
    /\ envelopes = <<>>
    /\ installCalls = <<>>
    /\ pushReplaced = 0
    /\ moduleRegistry = <<>>
    /\ moduleCache = <<>>
    /\ heap = 0
    /\ stack = <<>>
    /\ root = NoRoot
    /\ factoryRuns = [m \in ModuleIds |-> <<>>]
    /\ returned = [id |-> Null, exports |-> 0]
    /\ chunkStatus = <<>>
    /\ promises = <<>>
    /\ scripts = <<>>
    /\ imports = <<>>
    /\ thrown = {}
    /\ bindings = [m \in ModuleIds |-> -1]
    /\ reads = <<>>

\* no call of resolveModule or transformModule is being followed
InitUnits ==
    /\ disk = Null
    /\ request = Null
    /\ resolution = Null
    /\ parsedModule = Null
    /\ transformed = Null

InitBuild ==
    /\ \E sm \in SUBSET StaticStatements, dm \in SUBSET DynamicStatements :
          /\ Cardinality(sm) + Cardinality(dm) <= MaxImportStatements
          /\ project = MakeProject(sm, dm, {})
    /\ pc = "start"
    /\ graph = <<>>
    /\ chunkInfo = <<>>
    /\ output = <<>>
    /\ runs = 0
    /\ InitPage
    /\ InitUnits

BuildGraph ==
    /\ pc = "start"
    /\ graph' = buildDependencyGraph(project, EntryPath)
    /\ pc' = "graph"
    /\ UNCHANGED <<project, chunkInfo, output, runs>>
    /\ UNCHANGED pageVars
    /\ UNCHANGED unitVars

IdentifyChunks ==
    /\ pc = "graph"
    /\ chunkInfo' = identifyChunks(project, graph, EntryPath, ProjectRoot)
    /\ pc' = "chunks"
    /\ UNCHANGED <<project, graph, output, runs>>
    /\ UNCHANGED pageVars
    /\ UNCHANGED unitVars

GenerateBundles ==
    /\ pc = "chunks"
    /\ output' = generateBundles(chunkInfo, ProjectRoot)
    /\ pc' = "bundles"
    /\ runs' = runs + 1
    /\ UNCHANGED <<project, graph, chunkInfo>>
    /\ UNCHANGED pageVars
    /\ UNCHANGED unitVars

NextBuild == BuildGraph \/ IdentifyChunks \/ GenerateBundles

MaxRuns == 2

\* identifyChunks and generateBundles are called again on the same graph and
\* entry (bundler.js lines 47 and 62, a second time)
Rerun ==
    /\ pc = "bundles"
    /\ runs < MaxRuns
    /\ LET info == identifyChunks(project, graph, EntryPath, ProjectRoot)
       IN  /\ chunkInfo' = info
           /\ output' = generateBundles(info, ProjectRoot)
    /\ runs' = runs + 1
    /\ UNCHANGED <<project, pc, graph>>
    /\ UNCHANGED pageVars
    /\ UNCHANGED unitVars

vars == <<buildVars, pageVars, unitVars>>

Spec == InitBuild /\ [][NextBuild]_vars

SpecTwice == InitBuild /\ [][NextBuild \/ Rerun]_vars

\* the trees with re-exports
InitReexport ==
    /\ \E sm \in SUBSET {<<FileIndex, 1>>, <<FileA, 1>>, <<FileA, 2>>, <<FileS, 2>>},
          dm \in SUBSET {<<FileIndex, 1>>, <<FileIndex, 5>>},
          rm \in SUBSET ReexportStatements :
          project = MakeProject(sm, dm, rm)
    /\ pc = "start"
    /\ graph = <<>>
    /\ chunkInfo = <<>>
    /\ output = <<>>
    /\ runs = 0
    /\ InitPage
    /\ InitUnits

SpecReexport == InitReexport /\ [][NextBuild]_vars

----------------------------------------------------------------------------
(* Properties of the build                                                 *)

RECURSIVE StaticClosure(_)
\* the files reachable from the files of S over import declarations
StaticClosure(S) ==
    LET next == S \cup UNION {Range(project[f].imports) : f \in S}
    IN  IF next = S THEN S ELSE StaticClosure(next)

\* the module ids statically reachable from a module (itself included)
StaticReach(moduleId) ==
    LET path == CHOOSE f \in Files : toModuleId(f, ProjectRoot) = moduleId
    IN  {toModuleId(f, ProjectRoot) : f \in StaticClosure({path})}

Planned == pc \in {"chunks", "bundles"}

GraphModuleIds == {toModuleId(graph[i], ProjectRoot) : i \in 1..Len(graph)}

MainMembers == Range(chunkInfo.mainChunk.moduleIds)

\* chunks with an entry module are lazy chunks, those without are shared chunks
LazyChunkSet == {c \in Range(MapValues(chunkInfo.lazyChunks)) : c.entryModuleId # Null}

SharedChunkSet == {c \in Range(MapValues(chunkInfo.lazyChunks)) : c.entryModuleId = Null}

\* the entry module whose BFS is stored under a lazy chunk id: the last
\* dynamic entry point that was given this id
EntryOfLazy(chunkId) ==
    LET dep == chunkInfo.dynamicEntryPoints
        last == CHOOSE i \in 1..Len(dep) :
                    /\ dep[i].value = chunkId
                    /\ \A j \in 1..Len(dep) : dep[j].value = chunkId => j <= i
    IN  dep[last].key

\* the emitted files, by position, that hold the factory of a module
FilesHolding(moduleId) ==
    {i \in 1..Len(output) :
        moduleId \in (IF output[i].content.kind = "main"
                      THEN Range(MapKeys(output[i].content.moduleRegistry))
                      ELSE Range(MapKeys(output[i].content.moreModules)))}

\* C1: after identifyChunks and generateBundles every module of the graph has
\* its factory in exactly one emitted file.
C1_ExactlyOneFactory ==
    pc = "bundles" => \A m \in GraphModuleIds : Cardinality(FilesHolding(m)) = 1

\* C2: a member of a lazy chunk is neither a member of the main chunk nor of
\* any shared chunk.
C2_LazyMembersExclusive ==
    Planned =>
        \A L \in LazyChunkSet : \A m \in Range(L.moduleIds) :
            /\ m \notin MainMembers
            /\ \A S \in SharedChunkSet : m \notin Range(S.moduleIds)

\* a lazy chunk that keeps a module of its own while its entry also reaches a
\* main-chunk module and a shared module
C2_Witness ==
    /\ Planned
    /\ \E L \in LazyChunkSet :
          /\ L.moduleIds # <<>>
          /\ StaticReach(L.entryModuleId) \cap MainMembers # {}
          /\ \E S \in SharedChunkSet :
                StaticReach(L.entryModuleId) \cap Range(S.moduleIds) # {}

\* C3: no member of a shared chunk is in the main chunk, and the lazy chunks
\* whose entry module statically reaches a member are at least two and are
\* exactly the chunk's reference set (originalChunks).
C3_SharedMembers ==
    Planned =>
        \A S \in SharedChunkSet : \A m \in Range(S.moduleIds) :
            /\ m \notin MainMembers
            /\ Cardinality(Range(S.originalChunks)) >= 2
            /\ Range(S.originalChunks) =
                   {c \in Range(MapValues(chunkInfo.dynamicEntryPoints)) :
                       m \in StaticReach(EntryOfLazy(c))}

\* a shared chunk with two members, referenced by two lazy chunks and not by
\* a third one
C3_Witness ==
    /\ Planned
    /\ \E S \in SharedChunkSet :
          /\ Len(S.moduleIds) >= 2
          /\ Len(S.originalChunks) >= 2
          /\ \E c \in Range(MapValues(chunkInfo.dynamicEntryPoints)) :
                c \notin Range(S.originalChunks)

\* C4: a lazy chunk's group ends with the chunk itself and lists before it
\* every shared chunk holding a module that the chunk's original static BFS found.
C4_ChunkGroup ==
    Planned =>
        \A e \in Range(chunkInfo.chunkGroupMap) :
            LET L == e.key
                group == e.value
            IN  /\ group # <<>>
                /\ group[Len(group)] = L
                /\ \A S \in SharedChunkSet :
                      Range(S.moduleIds) \cap (StaticReach(EntryOfLazy(L)) \ MainMembers) # {}
                          => \E i \in 1..(Len(group) - 1) : group[i] = S.id

\* a lazy chunk whose group lists a shared chunk before it, and another lazy
\* chunk that needs only itself
C4_Witness ==
    /\ Planned
    /\ \E e \in Range(chunkInfo.chunkGroupMap) : Len(e.value) >= 2
    /\ \E e \in Range(chunkInfo.chunkGroupMap) : Len(e.value) = 1

----------------------------------------------------------------------------
(* The page: the emitted files executing in a browser                      *)
(* (the runtime that generateMainBundle emits, code-generator.js 64-337)   *)

MaxPreloads == 2

MaxDynamicCalls == 2

\* The file served under a name. bundler.js writes the bundles in order, so
\* a later bundle of the same name replaces an earlier one.
DistFile(name) ==
    LET idx == {i \in 1..Len(output) : output[i].filename = name}
    IN  CHOOSE i \in idx : \A j \in idx : j <= i

MainFile == DistFile(MainId \o DotJs)

MainBundle == output[MainFile].content

\* the module id -> factory entries a file carries
FactoriesOf(i) ==
    IF output[i].content.kind = "main"
    THEN output[i].content.moduleRegistry
    ELSE output[i].content.moreModules

\* the factory of module moduleId as file i carries it
FactoryBody(i, moduleId) == MapGet(FactoriesOf(i), moduleId)

CachedModuleNever(cache, moduleId) == FALSE

\* loadModule, lines 108-111: cachedModule !== undefined
CachedModule(cache, moduleId) == moduleId \in DOMAIN cache

CacheNewModuleSkipped(cache, moduleId, obj) == cache

\* loadModule, lines 114-116: var module = moduleCache[moduleId] = { exports: {} }
CacheNewModule(cache, moduleId, obj) == (moduleId :> [exports |-> obj]) @@ cache

\* how a call chain ends: the kick-off returns or throws, the promise of a
\* dynamic-import continuation is fulfilled or rejected
SettleKickoff(k, r, result) == IF r.kind = "entry" THEN result ELSE k

SettleImports(imps, r, result) ==
    IF r.kind = "then"
    THEN [imps EXCEPT ![r.idx].state = IF result = "returned" THEN "fulfilled" ELSE "rejected"]
    ELSE imps

\* loadModule(moduleId), lines 106-123, called from the frames of callerStack
\* in the chain that r started. An uncached module gets its cache entry and
\* its factory is invoked (a new frame); a missing factory is a TypeError
\* that unwinds the whole chain.
LoadModule(moduleId, registry, callerStack, r, k, imps) ==
    IF CachedModule(moduleCache, moduleId)
    THEN /\ returned' = [id |-> moduleId, exports |-> moduleCache[moduleId].exports]
         /\ stack' = callerStack
         /\ root' = IF callerStack = <<>> THEN NoRoot ELSE r
         /\ kickoff' = IF callerStack = <<>> THEN SettleKickoff(k, r, "returned") ELSE k
         /\ imports' = IF callerStack = <<>> THEN SettleImports(imps, r, "returned") ELSE imps
         /\ UNCHANGED <<moduleCache, heap, factoryRuns, thrown>>
    ELSE /\ moduleCache' = CacheNewModule(moduleCache, moduleId, heap + 1)
         /\ heap' = heap + 1
         /\ IF moduleId \in DOMAIN registry
            THEN /\ factoryRuns' =
                        [factoryRuns EXCEPT ![moduleId] = Append(@, registry[moduleId].file)]
                 /\ stack' = Append(callerStack,
                                    [mod |-> moduleId, file |-> registry[moduleId].file,
                                     next |-> 1, exports |-> heap + 1])
                 /\ root' = r
                 /\ kickoff' = k
                 /\ imports' = imps
                 /\ UNCHANGED <<returned, thrown>>
            ELSE /\ thrown' = thrown \cup {[kind |-> "TypeError", id |-> moduleId]}
                 /\ stack' = <<>>
                 /\ root' = NoRoot
                 /\ kickoff' = SettleKickoff(k, r, "threw")
                 /\ imports' = SettleImports(imps, r, "threw")
                 /\ UNCHANGED <<returned, factoryRuns>>

\* installChunk, lines 294-298: moduleRegistry[moduleId] = moreModules[moduleId]
RegisterModules(registry, data) ==
    [m \in Range(MapKeys(FactoriesOf(data.file))) |-> data] @@ registry

ResolveNever(proms, p) == proms

\* installChunk, lines 303-304: chunkStatus[id][0](), the promise's resolve
Resolve(proms, p) == [proms EXCEPT ![p] = "fulfilled"]

MarkLoadedForgets(status, id) == [x \in DOMAIN status \ {id} |-> status[x]]

\* installChunk, line 306: chunkStatus[id] = 0
MarkLoaded(status, id) == (id :> 0) @@ status

\* installChunk, lines 301-307
RECURSIVE MarkChunks(_, _)
MarkChunks(chunkIds, st) ==
    IF chunkIds = <<>> THEN st
    ELSE LET id == Head(chunkIds)
             inFlight == id \in DOMAIN st.chunkStatus /\ st.chunkStatus[id] # 0
         IN  MarkChunks(Tail(chunkIds),
                        [st EXCEPT !.promises = IF inFlight
                                                THEN Resolve(@, st.chunkStatus[id]) ELSE @,
                                   !.chunkStatus = MarkLoaded(@, id)])

\* installChunk(data), lines 289-308
installChunk(data, st) ==
    MarkChunks(output[data.file].content.chunkIds,
               [st EXCEPT !.moduleRegistry = RegisterModules(@, data),
                          !.installCalls = Append(@, data)])

InstallAllSkipped(callbacks, st) == st

RECURSIVE InstallAll(_, _)
\* lines 316-318: the envelopes pushed before the runtime ran
InstallAll(callbacks, st) ==
    IF callbacks = <<>> THEN st
    ELSE InstallAll(Tail(callbacks), installChunk(Head(callbacks), st))

PageState == [moduleRegistry |-> moduleRegistry, chunkStatus |-> chunkStatus,
              promises |-> promises, installCalls |-> installCalls]

\* a dynamic-import continuation whose Promise.all has resolved
Ready(c) ==
    /\ imports[c].state = "pending"
    /\ \A p \in imports[c].promises : promises[p] = "fulfilled"

\* nothing is running and no promise reaction is due: the next task may start
Idle == stack = <<>> /\ \A c \in 1..Len(imports) : ~Ready(c)

\* main.js runs: the registry of the main chunk, the lazy-loading runtime
\* (lines 311-323: drain the callback array, replace its push) and the entry
\* kick-off (line 337)
RunMain ==
    /\ pc = "bundles"
    /\ kickoff = "none"
    /\ MainBundle.kind = "main"
    /\ LET own == [moduleRegistry |->
                       [m \in Range(MapKeys(MainBundle.moduleRegistry)) |->
                           [id |-> 0, file |-> MainFile]],
                   chunkStatus |-> <<>>, promises |-> promises,
                   installCalls |-> installCalls]
           st == IF MainBundle.hasLazyChunks
                 THEN InstallAll(bundlerChunkCallbacks, own) ELSE own
       IN  /\ moduleRegistry' = st.moduleRegistry
           /\ chunkStatus' = st.chunkStatus
           /\ promises' = st.promises
           /\ installCalls' = st.installCalls
           /\ pushReplaced' = IF MainBundle.hasLazyChunks THEN pushReplaced + 1
                              ELSE pushReplaced
           /\ LoadModule(MainBundle.entryModuleId, st.moduleRegistry, <<>>,
                         [kind |-> "entry", idx |-> 0], "running", imports)
    /\ UNCHANGED <<bundlerChunkCallbacks, envelopes, scripts, bindings, reads>>
    /\ UNCHANGED buildVars
    /\ UNCHANGED unitVars

\* a chunk file runs: (self["bundlerChunkCallbacks"] = ... || []).push(envelope)
PushEnvelope(i) ==
    LET data == [id |-> Len(envelopes) + 1, file |-> i]
    IN  /\ envelopes' = Append(envelopes, data)
        /\ IF pushReplaced > 0
           THEN LET st == installChunk(data, PageState)
                IN  /\ moduleRegistry' = st.moduleRegistry
                    /\ chunkStatus' = st.chunkStatus
                    /\ promises' = st.promises
                    /\ installCalls' = st.installCalls
                    /\ UNCHANGED bundlerChunkCallbacks
           ELSE /\ bundlerChunkCallbacks' = Append(bundlerChunkCallbacks, data)
                /\ UNCHANGED <<moduleRegistry, chunkStatus, promises, installCalls>>

\* a chunk file that the page loads before main.js (a script tag ahead of it)
PreloadChunk(i) ==
    /\ pc = "bundles"
    /\ kickoff = "none"
    /\ Len(bundlerChunkCallbacks) < MaxPreloads
    /\ output[i].content.kind = "chunk"
    /\ PushEnvelope(i)
    /\ UNCHANGED <<kickoff, pushReplaced, moduleCache, heap, stack, root, factoryRuns,
                   returned, scripts, imports, thrown, bindings, reads>>
    /\ UNCHANGED buildVars
    /\ UNCHANGED unitVars

Top == stack[Len(stack)]

CallsOfNone(frame) == <<>>

\* the hoisted loadModule calls of the running factory
CallsOf(frame) == FactoryBody(frame.file, frame.mod).loadModuleCalls

\* the running factory executes its next var _x_ = loadModule("...")
CallLoadModule ==
    /\ stack # <<>>
    /\ Top.next <= Len(CallsOf(Top))
    /\ LoadModule(CallsOf(Top)[Top.next], moduleRegistry,
                  [stack EXCEPT ![Len(stack)].next = @ + 1], root, kickoff, imports)
    /\ UNCHANGED <<bundlerChunkCallbacks, pushReplaced, moduleRegistry, chunkStatus, promises,
                   scripts, envelopes, installCalls, reads, bindings>>
    /\ UNCHANGED buildVars
    /\ UNCHANGED unitVars

\* the running factory finishes (the module's own statements, with the
\* declaration `export let count = 0` among them, follow the hoisted calls)
\* and its loadModule call returns module.exports
FactoryReturn ==
    /\ stack # <<>>
    /\ Top.next > Len(CallsOf(Top))
    /\ stack' = SubSeq(stack, 1, Len(stack) - 1)
    /\ returned' = [id |-> Top.mod, exports |-> Top.exports]
    /\ root' = IF Len(stack) = 1 THEN NoRoot ELSE root
    /\ kickoff' = IF Len(stack) = 1 THEN SettleKickoff(kickoff, root, "returned") ELSE kickoff
    /\ imports' = IF Len(stack) = 1 THEN SettleImports(imports, root, "returned") ELSE imports
    /\ bindings' = [bindings EXCEPT ![Top.mod] = 0]
    /\ UNCHANGED <<bundlerChunkCallbacks, pushReplaced, moduleRegistry, moduleCache, heap,
                   factoryRuns, chunkStatus, promises, scripts, thrown, envelopes,
                   installCalls, reads>>
    /\ UNCHANGED buildVars
    /\ UNCHANGED unitVars

\* line 199: var publicPath = ""
publicPath == <<>>

\* lines 191-193
getChunkFileName(chunkId) == chunkId \o DotJs

\* lines 264-271: a script element for url is appended to the document head
loadScript(url) == [url |-> url, state |-> "pending"]

\* loadChunk, line 232: status === 0
AlreadyLoaded(status, id) == id \in DOMAIN status /\ status[id] = 0

CurrentlyLoadingNever(status, id) == FALSE

\* loadChunk, line 237: if (status), an in-flight tuple
CurrentlyLoading(status, id) == id \in DOMAIN status /\ status[id] # 0

ReusedPromiseDropped(status, id) == <<>>

\* loadChunk, line 239: promises.push(status[2])
ReusedPromise(status, id) == <<status[id]>>

\* loadChunk, lines 228-252, over st = [chunkStatus, promises, scripts, acc]
\* (acc is the local array "promises" of the call)
RECURSIVE LoadChunkLoop(_, _)
LoadChunkLoop(chunkIds, st) ==
    IF chunkIds = <<>> THEN st
    ELSE LET id == Head(chunkIds)
         IN  IF AlreadyLoaded(st.chunkStatus, id)
             THEN LoadChunkLoop(Tail(chunkIds), st)
             ELSE IF CurrentlyLoading(st.chunkStatus, id)
             THEN LoadChunkLoop(Tail(chunkIds),
                                [st EXCEPT !.acc = @ \o ReusedPromise(st.chunkStatus, id)])
             ELSE LET p == Len(st.promises) + 1
                  IN  LoadChunkLoop(Tail(chunkIds),
                          [chunkStatus |-> (id :> p) @@ st.chunkStatus,
                           promises |-> Append(st.promises, "pending"),
                           scripts |-> Append(st.scripts,
                                              loadScript(publicPath \o getChunkFileName(id))),
                           acc |-> Append(st.acc, p)])

\* loadChunk, line 225: var chunkIds = chunkGroupMap[chunkId] || [chunkId]
ChunkIdsOf(groupMap, chunkId) ==
    IF MapHas(groupMap, chunkId) THEN MapGet(groupMap, chunkId) ELSE <<chunkId>>

\* loadChunk(chunkId), lines 224-256
loadChunk(chunkId, groupMap, st) == LoadChunkLoop(ChunkIdsOf(groupMap, chunkId), st)

\* loadChunk is a function declaration inside main.js's IIFE (lines 47, 224):
\* only the factories that main.js itself carries have it in scope;
\* generateLazyChunk (lines 358-377) emits its factories into another script.
LoadChunkInScope(file) == file = MainFile /\ MainBundle.hasLazyChunks

\* Module moduleId executes its k-th rewritten import():
\* loadChunk("<chunkId>").then(loadModule.bind(loadModule, "<target>")),
\* either at the top level of its running factory, after the hoisted
\* loadModule calls, or later from one of its functions (an event handler).
DynamicImport(moduleId, k) ==
    /\ pc = "bundles"
    /\ factoryRuns[moduleId] # <<>>
    /\ \/ Idle
       \/ stack # <<>> /\ Top.mod = moduleId /\ Top.next > Len(CallsOf(Top))
    /\ LET file == factoryRuns[moduleId][Len(factoryRuns[moduleId])]
           sites == FactoryBody(file, moduleId).dynamicImports
       IN  /\ k \in 1..Len(sites)
           /\ IF LoadChunkInScope(file)
              THEN /\ Len(imports) < MaxDynamicCalls
                   /\ LET st == loadChunk(sites[k].chunkId, MainBundle.chunkGroupMap,
                                          [chunkStatus |-> chunkStatus, promises |-> promises,
                                           scripts |-> scripts, acc |-> <<>>])
                      IN  /\ chunkStatus' = st.chunkStatus
                          /\ promises' = st.promises
                          /\ scripts' = st.scripts
                          /\ imports' = Append(imports,
                                               [chunkId |-> sites[k].chunkId,
                                                targetModuleId |-> sites[k].targetModuleId,
                                                promises |-> Range(st.acc),
                                                state |-> "pending"])
                   /\ UNCHANGED <<stack, root, kickoff, thrown>>
              ELSE /\ thrown' = thrown \cup {[kind |-> "ReferenceError", id |-> moduleId]}
                   /\ stack' = <<>>
                   /\ root' = NoRoot
                   /\ kickoff' = IF stack = <<>> THEN kickoff
                                 ELSE SettleKickoff(kickoff, root, "threw")
                   /\ imports' = IF stack = <<>> THEN imports
                                 ELSE SettleImports(imports, root, "threw")
                   /\ UNCHANGED <<chunkStatus, promises, scripts>>
    /\ UNCHANGED <<bundlerChunkCallbacks, pushReplaced, moduleRegistry, moduleCache, heap,
                   factoryRuns, returned, envelopes, installCalls, reads, bindings>>
    /\ UNCHANGED buildVars
    /\ UNCHANGED unitVars

\* a requested chunk file arrives and runs
ScriptLoaded(r) ==
    /\ pc = "bundles"
    /\ Idle
    /\ scripts[r].state = "pending"
    /\ \E i \in 1..Len(output) : output[i].filename = scripts[r].url
    /\ output[DistFile(scripts[r].url)].content.kind = "chunk"
    /\ scripts' = [scripts EXCEPT ![r].state = "loaded"]
    /\ PushEnvelope(DistFile(scripts[r].url))
    /\ UNCHANGED <<kickoff, pushReplaced, moduleCache, heap, stack, root, factoryRuns,
                   returned, imports, thrown, bindings, reads>>
    /\ UNCHANGED buildVars
    /\ UNCHANGED unitVars

OnErrorSettles(proms, status, url) ==
    LET \* the chunk id whose file is at url (getChunkFileName, lines 191-193)
        chunkId == CHOOSE id \in DOMAIN chunkStatus :
                       publicPath \o getChunkFileName(id) = url
    IN  [p \in DOMAIN proms |-> IF p = status[chunkId] THEN "fulfilled" ELSE proms[p]]

\* lines 267-269: script.onerror = function() { console.error(...) }
OnError(proms, status, url) == proms

\* the request of a chunk file fails
ScriptFailed(r) ==
    /\ pc = "bundles"
    /\ Idle
    /\ scripts[r].state = "pending"
    /\ scripts' = [scripts EXCEPT ![r].state = "failed"]
    /\ promises' = OnError(promises, chunkStatus, scripts[r].url)
    /\ UNCHANGED <<kickoff, bundlerChunkCallbacks, pushReplaced, moduleRegistry, moduleCache,
                   heap, stack, root, factoryRuns, returned, chunkStatus, imports,
                   thrown, envelopes, installCalls, reads, bindings>>
    /\ UNCHANGED buildVars
    /\ UNCHANGED unitVars

\* the promise of loadChunk has resolved: its reaction
\* loadModule.bind(loadModule, target) runs
RunContinuation(c) ==
    /\ pc = "bundles"
    /\ stack = <<>>
    /\ Ready(c)
    /\ LoadModule(imports[c].targetModuleId, moduleRegistry, <<>>,
                  [kind |-> "then", idx |-> c], kickoff,
                  [imports EXCEPT ![c].state = "running"])
    /\ UNCHANGED <<bundlerChunkCallbacks, pushReplaced, moduleRegistry, chunkStatus, promises,
                   scripts, envelopes, installCalls, reads, bindings>>
    /\ UNCHANGED buildVars
    /\ UNCHANGED unitVars

NextPage ==
    \/ RunMain
    \/ \E i \in 1..Len(output) : PreloadChunk(i)
    \/ CallLoadModule
    \/ FactoryReturn
    \/ \E m \in ModuleIds, k \in 1..Cardinality(DynamicStatements) : DynamicImport(m, k)
    \/ \E r \in 1..Len(scripts) : ScriptLoaded(r)
    \/ \E r \in 1..Len(scripts) : ScriptFailed(r)
    \/ \E c \in 1..Len(imports) : RunContinuation(c)

\* the trees that the page is run on
InitRun ==
    /\ \E sm \in SUBSET {<<FileIndex, 1>>, <<FileS, 1>>, <<FileA, 1>>, <<FileSharedS, 1>>},
          dm \in SUBSET {<<FileIndex, 1>>, <<FileIndex, 3>>, <<FileIndex, 4>>, <<FileA, 1>>} :
          project = MakeProject(sm, dm, {})
    /\ pc = "start"
    /\ graph = <<>>
    /\ chunkInfo = <<>>
    /\ output = <<>>
    /\ runs = 0
    /\ InitPage
    /\ InitUnits

SpecRun == InitRun /\ [][NextBuild \/ NextPage]_vars

MaxIncrements == 1

MaxReads == 2

\* the modules whose factory has run and holds target's exports object in a
\* variable (var _t_ = loadModule(target))
Importers(target) ==
    {m \in ModuleIds :
        /\ factoryRuns[m] # <<>>
        /\ target \in Range(FactoryBody(factoryRuns[m][1], m).loadModuleCalls)}

ReadExportSnapshot(b, target) == IF b[target] < 0 THEN b[target] ELSE 0

\* exports.count: defineExports (lines 153-159) installs the getter
\* () => count (transformModule, lines 85-90) as the property's get
ReadExport(b, target) == b[target]

\* a function of importer m reads _t_.count
ReadCount(m, target) ==
    /\ pc = "bundles"
    /\ Idle
    /\ m \in Importers(target)
    /\ target \in DOMAIN moduleCache
    /\ Len(reads) < MaxReads
    /\ IF ReadExport(bindings, target) >= 0
       THEN /\ reads' = Append(reads, [reader |-> m, target |-> target,
                                       value |-> ReadExport(bindings, target)])
            /\ UNCHANGED thrown
       ELSE /\ thrown' = thrown \cup {[kind |-> "ReferenceError", id |-> target]}
            /\ UNCHANGED reads
    /\ UNCHANGED <<envelopes, installCalls, kickoff, bundlerChunkCallbacks, pushReplaced,
                   moduleRegistry, moduleCache, heap, stack, root, factoryRuns, returned,
                   chunkStatus, promises, scripts, imports, bindings>>
    /\ UNCHANGED buildVars
    /\ UNCHANGED unitVars

\* a function of importer m calls (0, _t_.increment)(), which runs count++
\* in the exporting module
CallIncrement(m, target) ==
    /\ pc = "bundles"
    /\ Idle
    /\ m \in Importers(target)
    /\ target \in DOMAIN moduleCache
    /\ bindings[target] >= 0
    /\ bindings[target] < MaxIncrements
    /\ bindings' = [bindings EXCEPT ![target] = @ + 1]
    /\ UNCHANGED <<envelopes, installCalls, kickoff, bundlerChunkCallbacks, pushReplaced,
                   moduleRegistry, moduleCache, heap, stack, root, factoryRuns, returned,
                   chunkStatus, promises, scripts, imports, thrown, reads>>
    /\ UNCHANGED buildVars
    /\ UNCHANGED unitVars

\* the page of main.js alone, with the functions of its modules being called
NextLive ==
    \/ RunMain
    \/ CallLoadModule
    \/ FactoryReturn
    \/ \E m \in ModuleIds, target \in ModuleIds : ReadCount(m, target)
    \/ \E m \in ModuleIds, target \in ModuleIds : CallIncrement(m, target)

SpecLive == InitRun /\ [][NextBuild \/ NextLive]_vars

\* A started call chain runs to completion: JavaScript executes a task
\* synchronously, statement after statement.
FairSpecRun == SpecRun /\ WF_vars(CallLoadModule) /\ WF_vars(FactoryReturn)

\* the page on a network where no request of a chunk file fails
NextArrive ==
    \/ RunMain
    \/ \E i \in 1..Len(output) : PreloadChunk(i)
    \/ CallLoadModule
    \/ FactoryReturn
    \/ \E m \in ModuleIds, k \in 1..Cardinality(DynamicStatements) : DynamicImport(m, k)
    \/ \E r \in 1..Len(scripts) : ScriptLoaded(r)
    \/ \E c \in 1..Len(imports) : RunContinuation(c)

\* Every requested chunk file arrives and runs, a due promise reaction is
\* run, and a started call chain runs to completion.
FairSpecArrive ==
    /\ InitRun /\ [][NextBuild \/ NextArrive]_vars
    /\ WF_vars(CallLoadModule) /\ WF_vars(FactoryReturn)
    /\ WF_vars(\E r \in 1..Len(scripts) : ScriptLoaded(r))
    /\ WF_vars(\E c \in 1..Len(imports) : RunContinuation(c))

----------------------------------------------------------------------------
(* Properties of the page                                                  *)

\* the chunk ids that continuation c waits for
GroupOf(c) == Range(ChunkIdsOf(MainBundle.chunkGroupMap, imports[c].chunkId))

\* continuation c has started (its loadModule(target) was called) or is due
Continued(c) == imports[c].state # "pending" \/ Ready(c)

\* C5: each module's factory is invoked at most once, and what a loadModule
\* call returns is the exports object that the cache holds for that id
C5_FactoryAtMostOnce ==
    /\ \A m \in ModuleIds : Len(factoryRuns[m]) <= 1
    /\ returned.id # Null =>
          /\ returned.id \in DOMAIN moduleCache
          /\ returned.exports = moduleCache[returned.id].exports

\* two dynamic imports of the same target have both been fulfilled: the
\* second loadModule(target) was served from the cache
C5_Witness ==
    \E c1, c2 \in 1..Len(imports) :
        /\ c1 # c2
        /\ imports[c1].targetModuleId = imports[c2].targetModuleId
        /\ imports[c1].state = "fulfilled" /\ imports[c2].state = "fulfilled"
        /\ Len(factoryRuns[imports[c1].targetModuleId]) = 1
        /\ returned.id = imports[c1].targetModuleId

\* C6: a running factory's module already has its cache entry, and a
\* loadModule call on a module whose factory is still running returns that
\* entry's exports object without invoking the factory again
C6_CacheBeforeFactory ==
    [][/\ \A j \in 1..Len(stack) :
              /\ stack[j].mod \in DOMAIN moduleCache
              /\ moduleCache[stack[j].mod].exports = stack[j].exports
       /\ \A j \in 1..Len(stack) :
              (Top.next <= Len(CallsOf(Top)) /\ CallsOf(Top)[Top.next] = stack[j].mod)
              => /\ factoryRuns' = factoryRuns
                 /\ returned' = [id |-> stack[j].mod, exports |-> stack[j].exports]
                 /\ Len(stack') = Len(stack)]_vars

\* a cyclic import has just returned: the module it asked for is still running
C6_Witness ==
    \E j \in 1..Len(stack) :
        /\ stack[j].mod = returned.id
        /\ stack[j].exports = returned.exports
        /\ j < Len(stack)

\* C7: the entry kick-off loadModule(entry) returns, and when it has returned
\* every module statically reachable from the entry has run exactly once
C7_EntryTerminates ==
    /\ [](kickoff = "returned" =>
            \A m \in StaticReach(MainBundle.entryModuleId) : Len(factoryRuns[m]) = 1)
    /\ (kickoff = "running") ~> (kickoff = "returned")

\* the kick-off has returned on a tree whose entry is on an import cycle
C7_Witness ==
    /\ kickoff = "returned"
    /\ \E m \in StaticReach(MainBundle.entryModuleId) :
          /\ m # MainBundle.entryModuleId
          /\ MainBundle.entryModuleId \in StaticReach(m)

\* C8: a dynamic-import continuation is due or has run only when every chunk
\* id of its chunk group has status 0
C8_ContinuationAfterGroup ==
    pc = "bundles" =>
        \A c \in 1..Len(imports) :
            Continued(c) => \A id \in GroupOf(c) : AlreadyLoaded(chunkStatus, id)

\* the own chunk of a two-chunk group has arrived before the shared chunk,
\* and the continuation is still waiting
C8_Witness ==
    /\ pc = "bundles"
    /\ \E c \in 1..Len(imports) :
          /\ imports[c].state = "pending"
          /\ ~Ready(c)
          /\ AlreadyLoaded(chunkStatus, imports[c].chunkId)
          /\ \E id \in GroupOf(c) : CurrentlyLoading(chunkStatus, id)

\* C9: no two script requests are for the same chunk file
C9_OneRequestPerChunk ==
    \A r1, r2 \in 1..Len(scripts) : scripts[r1].url = scripts[r2].url => r1 = r2

\* two dynamic imports of different chunks whose groups share a chunk: the
\* shared chunk has been requested
C9_Witness ==
    /\ pc = "bundles"
    /\ \E c1, c2 \in 1..Len(imports) :
          /\ imports[c1].chunkId # imports[c2].chunkId
          /\ \E id \in GroupOf(c1) \cap GroupOf(c2) :
                \E r \in 1..Len(scripts) :
                    scripts[r].url = publicPath \o getChunkFileName(id)

\* C10: a chunk status of 0 stays 0, and an in-flight status stays the same
\* tuple until it becomes 0
C10_StatusMonotonic ==
    [][\A id \in DOMAIN chunkStatus :
          /\ id \in DOMAIN chunkStatus'
          /\ chunkStatus'[id] \in {chunkStatus[id], 0}]_vars

\* a chunk that was requested has arrived: its status went from the
\* in-flight tuple to 0
C10_Witness ==
    \E id \in DOMAIN chunkStatus :
        /\ chunkStatus[id] = 0
        /\ \E r \in 1..Len(scripts) :
              /\ scripts[r].url = publicPath \o getChunkFileName(id)
              /\ scripts[r].state = "loaded"

\* C11: the registry is append-only: a module of main.js's own registry
\* keeps that factory, and any other registered module keeps the factory of
\* the first installChunk call that carried its id
C11_RegistryAppendOnly ==
    pc = "bundles" =>
        \A m \in DOMAIN moduleRegistry :
            IF MapHas(MainBundle.moduleRegistry, m)
            THEN moduleRegistry[m].id = 0
            ELSE LET \* the installChunk calls, by position, whose envelope carries m
                     InstallsOf ==
                         {k \in 1..Len(installCalls) :
                             m \in Range(MapKeys(FactoriesOf(installCalls[k].file)))}
                 IN  /\ InstallsOf # {}
                     /\ moduleRegistry[m] =
                            installCalls[CHOOSE k \in InstallsOf : \A j \in InstallsOf : k <= j]

\* C12: callbacks.push is replaced exactly once when the runtime runs; from
\* then on every pushed envelope has been passed to installChunk exactly
\* once, and before that the pushed envelopes wait in the array, not installed
C12_InstalledExactlyOnce ==
    pc = "bundles" =>
        /\ pushReplaced <= 1
        /\ (kickoff # "none" /\ MainBundle.hasLazyChunks) => pushReplaced = 1
        /\ pushReplaced = 0 => (bundlerChunkCallbacks = envelopes /\ installCalls = <<>>)
        /\ pushReplaced = 1 =>
              \A e \in 1..Len(envelopes) :
                  Cardinality({k \in 1..Len(installCalls) :
                                  installCalls[k] = envelopes[e]}) = 1

\* one envelope was pushed before the runtime ran and drained at start-up,
\* another was pushed after it and installed by the replaced push
C12_Witness ==
    /\ pushReplaced = 1
    /\ Len(bundlerChunkCallbacks) >= 1
    /\ Len(envelopes) > Len(bundlerChunkCallbacks)
    /\ Len(installCalls) = Len(envelopes)

\* the chunk ids whose script request has failed
FailedChunks ==
    {id \in DOMAIN chunkStatus :
        \E r \in 1..Len(scripts) :
            /\ scripts[r].url = publicPath \o getChunkFileName(id)
            /\ scripts[r].state = "failed"}

\* C13: after the script load of chunk C has failed, C stays in flight with
\* its promise pending and no second request; every dynamic import whose
\* chunk group contains C waits on that promise and its continuation has not
\* run, and a loadChunk called from then on does the same
C13_FailedLoadSticks ==
    [][\A id \in FailedChunks :
          /\ CurrentlyLoading(chunkStatus, id)
          /\ promises[chunkStatus[id]] = "pending"
          /\ \A c \in 1..Len(imports) :
                id \in GroupOf(c) =>
                    /\ chunkStatus[id] \in imports[c].promises
                    /\ imports[c].state = "pending"
                    /\ ~Ready(c)
          /\ chunkStatus'[id] = chunkStatus[id]
          /\ \A r \in 1..Len(scripts') :
                scripts'[r].url = publicPath \o getChunkFileName(id) => r \in 1..Len(scripts)
          /\ \A c \in 1..Len(imports') :
                (c > Len(imports) /\ id \in Range(ChunkIdsOf(MainBundle.chunkGroupMap,
                                                             imports'[c].chunkId)))
                => /\ chunkStatus[id] \in imports'[c].promises
                   /\ imports'[c].state = "pending"]_vars

\* the request of a shared chunk has failed and two dynamic imports of
\* different chunks wait on its one promise, the second having reused it
C13_Witness ==
    /\ pc = "bundles"
    /\ \E id \in FailedChunks : \E c1, c2 \in 1..Len(imports) :
          /\ c1 < c2
          /\ imports[c1].chunkId # imports[c2].chunkId
          /\ id \in GroupOf(c1) \cap GroupOf(c2)
          /\ chunkStatus[id] \in imports[c1].promises \cap imports[c2].promises
          /\ imports[c2].state = "pending" /\ ~Ready(c2)

C16_MainChunk ==
    LET EntryModuleId == toModuleId(EntryPath, ProjectRoot)
    IN
    Planned =>
        /\ MainMembers = StaticReach(EntryModuleId)
        /\ chunkInfo.mainChunk.moduleIds[1] = EntryModuleId
        /\ pc = "bundles" => MainBundle.entryModuleId = EntryModuleId

\* the entry imports a module statically and another dynamically: the first
\* is in the main chunk, the second is in the graph but not in the main chunk
C16_Witness ==
    /\ pc = "bundles"
    /\ Cardinality(MainMembers) >= 2
    /\ \E f \in Range(project[EntryPath].dynamicImports) :
          /\ toModuleId(f, ProjectRoot) \in GraphModuleIds
          /\ toModuleId(f, ProjectRoot) \notin MainMembers

\* the lazy chunks as identifyChunks holds them before splitSharedModules
\* (its local lazyChunks, lines 109-149)
LazyChunksBeforeSplit ==
    LazyLoop(chunkInfo.modules, ProjectRoot, chunkInfo.mainChunk.moduleIds,
             chunkInfo.dynamicEntryPoints, <<>>)

\* the distinct targets of the dynamic imports in the graph
DynamicTargetIds == Range(MapKeys(chunkInfo.dynamicEntryPoints))

\* C17: every distinct dynamic-import target has exactly one lazy chunk, whose
\* members before shared extraction are the modules statically reachable from
\* the target that are not in the main chunk
C17_OneLazyChunkPerTarget ==
    Planned =>
        \A target \in DynamicTargetIds :
            LET \* the lazy chunks, before the split, whose entry is target
                ChunksOfTarget ==
                    {c \in Range(MapValues(LazyChunksBeforeSplit)) :
                        c.entryModuleId = target}
            IN  /\ Cardinality(ChunksOfTarget) = 1
                /\ \A c \in ChunksOfTarget :
                      Range(c.moduleIds) = StaticReach(target) \ MainMembers

\* splitSharedModules applied to the lazy chunks of the plan
SplitOfPlan == splitSharedModules(LazyChunksBeforeSplit)

\* the lazy chunks, before the split, whose member set holds module m
HoldersOf(m) ==
    {c.id : c \in {x \in Range(MapValues(LazyChunksBeforeSplit)) : SetHas(x.moduleIds, m)}}

\* the modules that two or more lazy chunks hold
SharedModuleIds == {m \in GraphModuleIds : Cardinality(HoldersOf(m)) >= 2}

\* C18: two shared modules are in one shared chunk exactly when the same set
\* of lazy chunks holds both, and no lazy chunk keeps a shared module
C18_GroupedByReferenceSet ==
    Planned =>
        /\ \A m1, m2 \in SharedModuleIds :
              (\E sc \in Range(MapValues(SplitOfPlan.sharedChunks)) :
                    SetHas(sc.moduleIds, m1) /\ SetHas(sc.moduleIds, m2))
              <=> HoldersOf(m1) = HoldersOf(m2)
        /\ \A m \in SharedModuleIds :
              \A c \in Range(MapValues(SplitOfPlan.updatedLazyChunks)) :
                  ~SetHas(c.moduleIds, m)

\* C19: a shared chunk's id is shared_ followed by the chunk id of the
\* first of its members in sorted order
C19_SharedChunkNaming ==
    Planned =>
        \A sc \in Range(MapValues(SplitOfPlan.sharedChunks)) :
            sc.id = SharedPrefix \o toChunkId(SortStrings(sc.moduleIds)[1])

\* C20: the chunk group of a lazy chunk L lists the shared chunks whose
\* reference set contains L in the order of their ids, and then L; it is
\* <<L>> when no module is shared
C20_ChunkGroupOrder ==
    Planned =>
        \A e \in Range(chunkInfo.chunkGroupMap) :
            LET L == e.key
                n == Len(e.value)
                shared == SubSeq(e.value, 1, n - 1)
                \* the shared chunks, by id, whose reference set contains L
                SharedChunksOf ==
                    {sc.id : sc \in {x \in Range(MapValues(SplitOfPlan.sharedChunks)) :
                                        SetHas(x.originalChunks, L)}}
            IN  /\ n >= 1
                /\ e.value[n] = L
                /\ Range(shared) = SharedChunksOf
                /\ Len(shared) = Cardinality(SharedChunksOf)
                /\ \A i, j \in 1..Len(shared) : i < j => StrLess(shared[i], shared[j])
                /\ SharedModuleIds = {} => e.value = <<L>>

\* C21: when a dynamic-import continuation is due or has started, every
\* module statically reachable from its target has a factory in
\* moduleRegistry, and no loadModule call has looked up a missing factory
C21_GroupCoversTarget ==
    pc = "bundles" =>
        /\ \A c \in 1..Len(imports) :
              Continued(c) =>
                  StaticReach(imports[c].targetModuleId) \subseteq DOMAIN moduleRegistry
        /\ \A e \in thrown : e.kind # "TypeError"

\* C22: the source of a re-export is reached by the graph traversal and has a
\* factory in an emitted file, so every hoisted loadModule call names a module
\* with a factory
C22_ReexportReached ==
    LET \* the module ids of the re-export sources of the modules in the graph
        reexported ==
            UNION {{toModuleId(f, ProjectRoot) : f \in Range(project[graph[i]].reexports)}
                      : i \in 1..Len(graph)}
        \* the module ids that the hoisted loadModule calls of the factories name
        called ==
            UNION {UNION {Range(e.value.loadModuleCalls) : e \in Range(FactoriesOf(i))}
                      : i \in 1..Len(output)}
    IN  pc = "bundles" =>
            /\ \A m \in reexported : m \in GraphModuleIds /\ FilesHolding(m) # {}
            /\ \A m \in called : FilesHolding(m) # {}

----------------------------------------------------------------------------
(* resolver.js                                                             *)

RECURSIVE SplitPath(_, _, _)
\* s.split('/'), cur being the segment in progress
SplitPath(s, cur, segs) ==
    IF s = <<>> THEN Append(segs, cur)
    ELSE IF Head(s) = "/" THEN SplitPath(Tail(s), <<>>, Append(segs, cur))
    ELSE SplitPath(Tail(s), Append(cur, Head(s)), segs)

RECURSIVE NormalizeSegments(_, _)
\* path normalisation: empty and "." segments are dropped, ".." removes the
\* segment before it (and is dropped at the root)
NormalizeSegments(segs, out) ==
    IF segs = <<>> THEN out
    ELSE LET seg == Head(segs)
         IN  IF seg = <<>> \/ seg = <<".">> THEN NormalizeSegments(Tail(segs), out)
             ELSE IF seg = <<".", ".">>
             THEN NormalizeSegments(Tail(segs),
                                    IF out = <<>> THEN out ELSE SubSeq(out, 1, Len(out) - 1))
             ELSE NormalizeSegments(Tail(segs), Append(out, seg))

RECURSIVE JoinAbsolute(_)
JoinAbsolute(segs) ==
    IF segs = <<>> THEN <<>> ELSE <<"/">> \o Head(segs) \o JoinAbsolute(Tail(segs))

\* the normal form of an absolute path
NormalizePath(p) ==
    LET segs == NormalizeSegments(SplitPath(p, <<>>, <<>>), <<>>)
    IN  IF segs = <<>> THEN <<"/">> ELSE JoinAbsolute(segs)

\* path.resolve(fromDir, specifier), fromDir being absolute
pathResolve(fromDir, specifier) ==
    IF specifier # <<>> /\ specifier[1] = "/" THEN NormalizePath(specifier)
    ELSE NormalizePath(fromDir \o <<"/">> \o specifier)

EXTENSIONS == << <<>>, <<".", "j", "s">>, <<".", "j", "s", "o", "n">>,
                 <<"/", "i", "n", "d", "e", "x", ".", "j", "s">> >>

\* fs.existsSync(candidate)
existsSync(d, candidate) == NormalizePath(candidate) \in DOMAIN d

IsFileOrDirectory(d, candidate) == TRUE

\* fs.statSync(candidate).isFile()
IsFile(d, candidate) == d[NormalizePath(candidate)] = "file"

RECURSIVE ProbeLoop(_, _, _, _)
\* lines 96-101: for (const ext of EXTENSIONS)
ProbeLoop(exts, basePath, d, probes) ==
    IF exts = <<>> THEN [kind |-> "none", path |-> Null, probes |-> probes]
    ELSE LET candidate == basePath \o Head(exts)
             probed == Append(probes, candidate)
         IN  IF existsSync(d, candidate) /\ IsFile(d, candidate)
             THEN [kind |-> "file", path |-> candidate, probes |-> probed]
             ELSE ProbeLoop(Tail(exts), basePath, d, probed)

\* lines 87-107; specifier.startsWith('.') is false of the empty string
resolveModule(specifier, fromDir, d) ==
    IF ~(specifier # <<>> /\ specifier[1] = ".")
    THEN [kind |-> "bare-specifier", path |-> Null, tried |-> <<>>, probes |-> <<>>]
    ELSE LET basePath == pathResolve(fromDir, specifier)
             found == ProbeLoop(EXTENSIONS, basePath, d, <<>>)
         IN  IF found.kind = "file"
             THEN [kind |-> "resolved", path |-> found.path, tried |-> <<>>,
                   probes |-> found.probes]
             ELSE [kind |-> "unresolved-module", path |-> Null,
                   tried |-> [i \in 1..Len(EXTENSIONS) |-> basePath \o EXTENSIONS[i]],
                   probes |-> found.probes]

\* The paths of the snapshot that may hold an entry, and the snapshots: an
\* entry under a path makes the path a directory.
DiskPaths ==
    {Abs(<<"a">>), Abs(<<"a", ".", "j", "s">>), Abs(<<"a", ".", "j", "s", "o", "n">>),
     Abs(<<"a", "/", "i", "n", "d", "e", "x", ".", "j", "s">>),
     Abs(<<"a", ".", "j", "s", ".", "j", "s">>)}

Disks ==
    {d \in UNION {[P -> {"file", "dir"}] : P \in SUBSET DiskPaths} :
        Abs(<<"a", "/", "i", "n", "d", "e", "x", ".", "j", "s">>) \in DOMAIN d
            => (Abs(<<"a">>) \in DOMAIN d /\ d[Abs(<<"a">>)] = "dir")}

Specifiers ==
    {<<".", "/", "a">>, <<".", "/", "a", ".", "j", "s">>, <<".", "/", "a", "/">>,
     <<".", ".", "/", "p", "/", "a">>, <<".", "/", "x", "/", ".", ".", "/", "a">>,
     <<"a">>, <<"/", "p", "/", "a", ".", "j", "s">>, <<>>}

InitResolve ==
    /\ disk \in Disks
    /\ request \in [specifier : Specifiers, fromDir : {ProjectRoot}]
    /\ resolution = Null
    /\ parsedModule = Null
    /\ transformed = Null
    /\ project = MakeProject({}, {}, {})
    /\ pc = "start"
    /\ graph = <<>>
    /\ chunkInfo = <<>>
    /\ output = <<>>
    /\ runs = 0
    /\ InitPage

\* buildDependencyGraph calls resolveModule(imp.source, path.dirname(filePath))
ResolveModule ==
    /\ request # Null
    /\ resolution = Null
    /\ resolution' = resolveModule(request.specifier, request.fromDir, disk)
    /\ UNCHANGED <<disk, request, parsedModule, transformed>>
    /\ UNCHANGED buildVars
    /\ UNCHANGED pageVars

SpecResolve == InitResolve /\ [][ResolveModule]_vars

\* base, base.js, base.json, base/index.js, base being the specifier joined
\* to the referrer directory, normalised
CandidatesOf(req) ==
    LET base == pathResolve(req.fromDir, req.specifier)
    IN  <<base, base \o <<".", "j", "s">>,
          base \o <<".", "j", "s", "o", "n">>,
          base \o <<"/", "i", "n", "d", "e", "x", ".", "j", "s">>>>

\* the positions of the candidates that are regular files of the snapshot
RegularCandidates(req) ==
    {i \in 1..4 : CandidatesOf(req)[i] \in DOMAIN disk /\ disk[CandidatesOf(req)[i]] = "file"}

\* C23: a specifier starting with "." resolves to the first of base, base.js,
\* base.json, base/index.js that is a regular file, and fails with an
\* unresolved-module error listing the four candidates exactly when none is;
\* any other specifier fails with a bare-specifier error and no probe
C23_ResolveOrder ==
    resolution # Null =>
        IF request.specifier = <<>> \/ request.specifier[1] # "."
        THEN resolution.kind = "bare-specifier" /\ resolution.probes = <<>>
        ELSE IF RegularCandidates(request) # {}
        THEN /\ resolution.kind = "resolved"
             /\ \E i \in RegularCandidates(request) :
                   /\ \A j \in RegularCandidates(request) : i <= j
                   /\ resolution.path = CandidatesOf(request)[i]
        ELSE /\ resolution.kind = "unresolved-module"
             /\ resolution.tried = CandidatesOf(request)

\* base is a directory, base.js is missing, base.json and base/index.js are
\* regular files: the call has returned base.json
C23_Witness ==
    /\ resolution # Null
    /\ resolution.kind = "resolved"
    /\ resolution.path = CandidatesOf(request)[3]
    /\ CandidatesOf(request)[1] \in DOMAIN disk
    /\ CandidatesOf(request)[2] \notin DOMAIN disk
    /\ 4 \in RegularCandidates(request)

----------------------------------------------------------------------------
(* transformer.js: the text of one module                                  *)

NameAdd == <<"a", "d", "d">>
NameMinus == <<"m", "i", "n", "u", "s">>
NameD == <<"d">>
NameNs == <<"n", "s">>
NameDefault == <<"d", "e", "f", "a", "u", "l", "t">>
NameStar == <<"*">>


\* The import declarations a module may contain, in source order, as
\* parseModule records them (buildDependencyGraph adds resolvedPath):
\*   import { add } from './m.js';
\*   import { sub as minus } from './m.js';
\*   import d from './a-b.js';
\*   import * as ns from './a_b.js';
ImportTemplate ==
    <<[source |-> <<".", "/", "m", ".", "j", "s">>, resolvedPath |-> Abs(<<"m", ".", "j", "s">>),
       specifiers |-> <<[local |-> NameAdd, imported |-> NameAdd]>>],
      [source |-> <<".", "/", "m", ".", "j", "s">>, resolvedPath |-> Abs(<<"m", ".", "j", "s">>),
       specifiers |-> <<[local |-> NameMinus, imported |-> <<"s", "u", "b">>]>>],
      [source |-> <<".", "/", "a", "-", "b", ".", "j", "s">>, resolvedPath |-> Abs(<<"a", "-", "b", ".", "j", "s">>),
       specifiers |-> <<[local |-> NameD, imported |-> NameDefault]>>],
      [source |-> <<".", "/", "a", "_", "b", ".", "j", "s">>, resolvedPath |-> Abs(<<"a", "_", "b", ".", "j", "s">>),
       specifiers |-> <<[local |-> NameNs, imported |-> NameStar]>>]>>

\* The identifier occurrences a module may contain, in source order. parent
\* and role are the type of the parent node and the child slot the identifier
\* fills in it; scope tells what the occurrence is under the scoping rules of
\* the language: "free" (a reference that no local declaration captures),
\* "local" (the declaration of, or a reference to, a local binding) or
\* "none" (not a reference).
\*    1  add(1);                       7  ns.x;
\*    2  f(add);                       8  d();
\*    3  add`x`;                       9  obj.add;
\*    4  add + 1;                     10  function f(add) {      (the parameter)
\*    5  add;                         11      return add; }
\*    6  new d();                     12  function g() { const minus = 0;
\*   14  add: while (0) {}            13      minus(2); }
\*   15  ({ add: 1 });                16  function h() { function add() {} }
OccurrenceTemplate ==
    <<[name |-> NameAdd, parent |-> "CallExpression", role |-> "callee",
       computed |-> FALSE, scope |-> "free"],
      [name |-> NameAdd, parent |-> "CallExpression", role |-> "arguments",
       computed |-> FALSE, scope |-> "free"],
      [name |-> NameAdd, parent |-> "TaggedTemplateExpression", role |-> "tag",
       computed |-> FALSE, scope |-> "free"],
      [name |-> NameAdd, parent |-> "BinaryExpression", role |-> "left",
       computed |-> FALSE, scope |-> "free"],
      [name |-> NameAdd, parent |-> "ExpressionStatement", role |-> "expression",
       computed |-> FALSE, scope |-> "free"],
      [name |-> NameD, parent |-> "NewExpression", role |-> "callee",
       computed |-> FALSE, scope |-> "free"],
      [name |-> NameNs, parent |-> "MemberExpression", role |-> "object",
       computed |-> FALSE, scope |-> "free"],
      [name |-> NameD, parent |-> "CallExpression", role |-> "callee",
       computed |-> FALSE, scope |-> "free"],
      [name |-> NameAdd, parent |-> "MemberExpression", role |-> "property",
       computed |-> FALSE, scope |-> "none"],
      [name |-> NameAdd, parent |-> "FunctionDeclaration", role |-> "params",
       computed |-> FALSE, scope |-> "local"],
      [name |-> NameAdd, parent |-> "ReturnStatement", role |-> "argument",
       computed |-> FALSE, scope |-> "local"],
      [name |-> NameMinus, parent |-> "VariableDeclarator", role |-> "id",
       computed |-> FALSE, scope |-> "local"],
      [name |-> NameMinus, parent |-> "CallExpression", role |-> "callee",
       computed |-> FALSE, scope |-> "local"],
      [name |-> NameAdd, parent |-> "LabeledStatement", role |-> "label",
       computed |-> FALSE, scope |-> "none"],
      [name |-> NameAdd, parent |-> "Property", role |-> "key",
       computed |-> FALSE, scope |-> "none"],
      [name |-> NameAdd, parent |-> "FunctionDeclaration", role |-> "id",
       computed |-> FALSE, scope |-> "local"]>>

MaxOccurrences == 3

\* the selections of occurrences that form a program: a reference to a local
\* binding comes with the declaration of that binding
OccurrenceSets ==
    {K \in SUBSET (1..Len(OccurrenceTemplate)) :
        /\ Cardinality(K) <= MaxOccurrences
        /\ 11 \in K => 10 \in K
        /\ 13 \in K => 12 \in K}

RECURSIVE SetSpecifiers(_, _, _)
\* parseModule, lines 61-66: importedBindings.set(spec.local, {modulePath, importedName})
SetSpecifiers(specifiers, source, importedBindings) ==
    IF specifiers = <<>> THEN importedBindings
    ELSE SetSpecifiers(Tail(specifiers), source,
                       MapSet(importedBindings, Head(specifiers).local,
                              [modulePath |-> source,
                               importedName |-> Head(specifiers).imported]))

RECURSIVE ImportedBindings(_, _)
ImportedBindings(imps, importedBindings) ==
    IF imps = <<>> THEN importedBindings
    ELSE ImportedBindings(Tail(imps),
                          SetSpecifiers(Head(imps).specifiers, Head(imps).source,
                                        importedBindings))

\* [a-zA-Z0-9]
Alphanumerics ==
    {"a", "b", "c", "d", "e", "f", "g", "h", "i", "j", "k", "l", "m", "n", "o", "p", "q",
     "r", "s", "t", "u", "v", "w", "x", "y", "z",
     "A", "B", "C", "D", "E", "F", "G", "H", "I", "J", "K", "L", "M", "N", "O", "P", "Q",
     "R", "S", "T", "U", "V", "W", "X", "Y", "Z",
     "0", "1", "2", "3", "4", "5", "6", "7", "8", "9"}

\* makeVarName, lines 304-313
makeVarName(modulePath) ==
    LET stripped == StripDotSlash(modulePath)
        \* .replace(/\.js$/, '')
        trimmed == IF Len(stripped) >= 3
                      /\ SubSeq(stripped, Len(stripped) - 2, Len(stripped)) = DotJs
                   THEN SubSeq(stripped, 1, Len(stripped) - 3) ELSE stripped
    IN  <<"_">>
        \o [i \in 1..Len(trimmed) |->
               IF trimmed[i] \in Alphanumerics THEN trimmed[i] ELSE "_"]
        \o <<"_">>

RECURSIVE ModuleVarNames(_, _)
\* Step 1, lines 22-31: moduleVarNames, source -> variable name
ModuleVarNames(imps, names) ==
    IF imps = <<>> THEN names
    ELSE ModuleVarNames(Tail(imps),
                        IF MapHas(names, Head(imps).source) THEN names
                        ELSE MapSet(names, Head(imps).source, makeVarName(Head(imps).source)))

\* Step 2, lines 34-44: the statements var <varName> = loadModule("<moduleId>");
LoadModuleCalls(imps, names, projectRoot) ==
    [i \in 1..Len(imps) |->
        [varName |-> MapGet(names, imps[i].source),
         moduleId |-> toModuleId(imps[i].resolvedPath, projectRoot)]]

\* Step 4, lines 146-219: the occurrences that the visitor leaves alone
\* because of their parent node
SkippedByParent(occ) ==
    \/ occ.parent \in {"ImportSpecifier", "ImportDefaultSpecifier",
                       "ImportNamespaceSpecifier", "ImportDeclaration"}
    \/ occ.parent = "ExportSpecifier"
    \/ occ.parent = "Property" /\ occ.role = "key" /\ ~occ.computed
    \/ occ.parent = "MemberExpression" /\ occ.role = "property" /\ ~occ.computed
    \/ occ.parent = "VariableDeclarator" /\ occ.role = "id"
    \/ occ.parent \in {"FunctionDeclaration", "ClassDeclaration"} /\ occ.role = "id"
    \/ /\ occ.parent \in {"FunctionDeclaration", "FunctionExpression",
                          "ArrowFunctionExpression"}
       /\ occ.role = "params"
    \/ occ.parent \in {"LabeledStatement", "BreakStatement", "ContinueStatement"}
       /\ occ.role = "label"

\* lines 226-233
PropertyAccess(varName, importedName) ==
    IF importedName = NameStar THEN varName
    ELSE IF importedName = NameDefault
    THEN varName \o <<"[", "\"">> \o NameDefault \o <<"\"", "]">>
    ELSE varName \o <<".">> \o importedName

isCallTargetOrNew(occ) ==
    occ.parent \in {"CallExpression", "NewExpression"} /\ occ.role = "callee"

\* line 237-238
isCallTarget(occ) == occ.parent = "CallExpression" /\ occ.role = "callee"

\* lines 239-240
isTaggedTemplate(occ) == occ.parent = "TaggedTemplateExpression" /\ occ.role = "tag"

\* the Identifier visitor, lines 142-248: the replacement pushed for an
\* occurrence, Null when it returns without pushing one
ReplacementOf(occ, importedBindings, names) ==
    IF ~MapHas(importedBindings, occ.name) THEN Null
    ELSE IF SkippedByParent(occ) THEN Null
    ELSE LET binding == MapGet(importedBindings, occ.name)
         IN  IF ~MapHas(names, binding.modulePath) THEN Null
             ELSE LET replacement ==
                          PropertyAccess(MapGet(names, binding.modulePath),
                                         binding.importedName)
                  IN  \* lines 242-245: (0, <replacement>)
                      IF isCallTarget(occ) \/ isTaggedTemplate(occ)
                      THEN <<"(", "0", ",", " ">> \o replacement \o <<")">>
                      ELSE replacement

\* transformModule, steps 1, 2 and 4, on the text of the module: the hoisted
\* statements and, per identifier occurrence, what overwrites it
RewriteModule(info, projectRoot) ==
    LET moduleVarNames == ModuleVarNames(info.imports, <<>>)
    IN  [loadModuleCalls |-> LoadModuleCalls(info.imports, moduleVarNames, projectRoot),
         replacements |->
             [i \in 1..Len(info.identifiers) |->
                 ReplacementOf(info.identifiers[i], info.importedBindings, moduleVarNames)]]

InitTransform ==
    /\ \E I \in SUBSET (1..Len(ImportTemplate)), K \in OccurrenceSets :
          LET imps == SelectSeqBy(ImportTemplate, I)
          IN  parsedModule = [imports |-> imps,
                              importedBindings |-> ImportedBindings(imps, <<>>),
                              identifiers |-> SelectSeqBy(OccurrenceTemplate, K)]
    /\ transformed = Null
    /\ disk = Null
    /\ request = Null
    /\ resolution = Null
    /\ project = MakeProject({}, {}, {})
    /\ pc = "start"
    /\ graph = <<>>
    /\ chunkInfo = <<>>
    /\ output = <<>>
    /\ runs = 0
    /\ InitPage

\* generateMainBundle and generateLazyChunk call transformModule(info, projectRoot)
TransformModule ==
    /\ parsedModule # Null
    /\ transformed = Null
    /\ transformed' = RewriteModule(parsedModule, ProjectRoot)
    /\ UNCHANGED <<disk, request, resolution, parsedModule>>
    /\ UNCHANGED buildVars
    /\ UNCHANGED pageVars

SpecTransform == InitTransform /\ [][TransformModule]_vars

\* the distinct import sources of the module being transformed
SourcesOf(info) == {info.imports[i].source : i \in 1..Len(info.imports)}

\* C24: the factory body has exactly one var <varname> = loadModule("<id>");
\* statement per distinct import source
C24_OneStatementPerSource ==
    transformed # Null =>
        /\ Len(transformed.loadModuleCalls) = Cardinality(SourcesOf(parsedModule))
        /\ \A source \in SourcesOf(parsedModule) :
              \* the hoisted statements, by position, that load the module of source
              Cardinality({k \in 1..Len(transformed.loadModuleCalls) :
                              \E i \in 1..Len(parsedModule.imports) :
                                  /\ parsedModule.imports[i].source = source
                                  /\ transformed.loadModuleCalls[k].moduleId =
                                         toModuleId(parsedModule.imports[i].resolvedPath,
                                                    ProjectRoot)}) = 1

\* the occurrences, by position, that transformModule overwrites
Rewritten == {i \in 1..Len(transformed.replacements) : transformed.replacements[i] # Null}

\* C25: an identifier occurrence is overwritten only when it is a free
\* reference to an imported binding; a reference to a local binding that
\* shadows the imported name is left untouched
C25_OnlyFreeReferences ==
    transformed # Null =>
        \A i \in Rewritten :
            /\ parsedModule.identifiers[i].scope = "free"
            /\ MapHas(parsedModule.importedBindings, parsedModule.identifiers[i].name)

\* C26: a rewritten identifier is overwritten with (0, <access>) when it is
\* the callee of a call expression or the tag of a tagged template, and with
\* the bare <access> in every other position
C26_WrapOnlyCallees ==
    transformed # Null =>
        \A i \in Rewritten :
            LET occ == parsedModule.identifiers[i]
                binding == MapGet(parsedModule.importedBindings, occ.name)
                \* the property access that reads the binding
                access == PropertyAccess(makeVarName(binding.modulePath),
                                         binding.importedName)
            IN  IF \/ occ.parent = "CallExpression" /\ occ.role = "callee"
                   \/ occ.parent = "TaggedTemplateExpression" /\ occ.role = "tag"
                THEN transformed.replacements[i] = <<"(", "0", ",", " ">> \o access \o <<")">>
                ELSE transformed.replacements[i] = access

\* a call of an imported function, a read of it as an argument and a `new`
\* of an imported default have all been rewritten
C26_Witness ==
    /\ transformed # Null
    /\ \E i, j, k \in Rewritten :
          /\ parsedModule.identifiers[i].parent = "CallExpression"
          /\ parsedModule.identifiers[i].role = "callee"
          /\ parsedModule.identifiers[j].role = "arguments"
          /\ parsedModule.identifiers[k].parent = "NewExpression"

\* C30: two distinct import sources of a module get distinct module variable
\* names, so the variable of a source holds the exports object of the module
\* that the source names (once the hoisted statements have run, a variable
\* holds what the last assignment to it loaded)
C30_DistinctVarNames ==
    transformed # Null =>
        /\ \A s1, s2 \in SourcesOf(parsedModule) :
              s1 # s2 => makeVarName(s1) # makeVarName(s2)
        /\ \A i \in 1..Len(parsedModule.imports) :
              LET calls == transformed.loadModuleCalls
                  varName == makeVarName(parsedModule.imports[i].source)
                  last == CHOOSE k \in 1..Len(calls) :
                              /\ calls[k].varName = varName
                              /\ \A j \in 1..Len(calls) : calls[j].varName = varName => j <= k
              IN  calls[last].moduleId
                      = toModuleId(parsedModule.imports[i].resolvedPath, ProjectRoot)

\* C27: distinct dynamic-import targets get distinct lazy chunk ids, the
\* shared chunks get ids distinct from each other and from the lazy chunk
\* ids, no chunk file is named main.js, and so every planned chunk is
\* emitted as a file of its own
C27_DistinctChunkIds ==
    LET \* the distinct reference sets of the shared modules: one shared chunk each
        ReferenceSets == {HoldersOf(m) : m \in SharedModuleIds}
    IN
    Planned =>
        /\ \A t1, t2 \in DynamicTargetIds : t1 # t2 => toChunkId(t1) # toChunkId(t2)
        /\ Len(SplitOfPlan.sharedChunks) = Cardinality(ReferenceSets)
        /\ \A sc \in Range(MapKeys(SplitOfPlan.sharedChunks)) :
              ~MapHas(SplitOfPlan.updatedLazyChunks, sc)
        /\ \A id \in Range(MapKeys(chunkInfo.lazyChunks)) : id \o DotJs # MainId \o DotJs
        /\ Len(chunkInfo.lazyChunks)
               = Cardinality(DynamicTargetIds) + Cardinality(ReferenceSets)
        /\ pc = "bundles" =>
              /\ Len(output) = 1 + Len(chunkInfo.lazyChunks)
              /\ \A i, j \in 1..Len(output) : output[i].filename = output[j].filename => i = j

\* C28: a rewritten import() that a factory executes finds loadChunk bound,
\* in whichever emitted file the factory lives: no ReferenceError is thrown
C28_LoadChunkBound ==
    \A e \in thrown : e.kind # "ReferenceError"

\* C29: when every requested chunk file arrives, the promise of every
\* loadChunk call resolves and the continuation of every dynamic import
\* runs, also when no chunk of the group had to be requested
C29_ContinuationRuns ==
    \A c \in 1..MaxDynamicCalls :
        (Len(imports) >= c /\ imports[c].state = "pending")
            ~> (/\ Len(imports) >= c
                /\ imports[c].state # "pending"
                /\ \A p \in imports[c].promises : promises[p] = "fulfilled")

\* the continuation of an import whose group was installed before it was
\* ever requested (an empty promise list) has run, and so has that of an
\* import that had to request its chunk
C29_Witness ==
    \E c1, c2 \in 1..Len(imports) :
        /\ imports[c1].promises = {}
        /\ imports[c1].state = "fulfilled"
        /\ imports[c2].promises # {}
        /\ imports[c2].state = "fulfilled"

====
